---------------------------- MODULE Spec2Model ----------------------------
(***************************************************************************)
(* The snake game of src/src/main.js as a state machine.                   *)
(*                                                                         *)
(* State: the script's top-level variables (virtualField, snakeCells,      *)
(* snakeDirection, globalTimestamp, animationFrameId), the DOM state the   *)
(* script writes (the start button's disabled flag, the status text, the   *)
(* cells' classes, the keydown listener) and the clock of the              *)
(* requestAnimationFrame callbacks.                                        *)
(*                                                                         *)
(* Handlers, one action each: gameBtn.onclick, handleKeyboard(e) and       *)
(* tick(timestamp); tick calls updateGameState and updateField.            *)
(*                                                                         *)
(* Coordinates are the code's, 0-based; a TLA+ sequence is 1-based, so     *)
(* virtualField[r][c] of the code is virtualField[r + 1][c + 1] here.      *)
(*                                                                         *)
(* The board size and the number of apples to win are scaled down from the *)
(* source's values (FIELD_SIZE = 10, WIN_CONDITION = 5) to keep the state  *)
(* space finite and small; they keep FIELD_SIZE^2 >= WIN_CONDITION + 2.    *)
(***************************************************************************)
EXTENDS Integers, Sequences, FiniteSets

\* main.js:9 sets 10; scaled down.
FIELD_SIZE == 3

\* main.js:11 sets 5; scaled down.
WIN_CONDITION == 4

TICK_IN_MS == 300

\* The number of animation-frame callbacks a behaviour holds (caps the clock).
MaxFrames == 10

\* The time between two animation-frame callbacks, in ms: the shortest that
\* lets every second callback apply a step.
FrameDelay == TICK_IN_MS + 1

\* No callback arrives after this time.
MaxTime == MaxFrames * FrameDelay

\* JavaScript's null, for globalTimestamp.
NULL == -1

VARIABLES
    virtualField,       \* cell[][]: "empty" | "apple" | "snake"
    snakeCells,         \* sequence of <<row, col>>, head first
    snakeDirection,     \* <<up/down, left/right>>
    globalTimestamp,    \* NULL or the timestamp the tick interval started at
    animationFrameId,   \* "null" | "pending" (a tick callback is requested) | "cancelled"
    btnDisabled,        \* gameBtn.disabled
    gameStatus,         \* gameStatus.textContent, as a tuple of its parts
    cellClass,          \* the classes of each cell's div
    keyboardActive,     \* the keydown listener is registered
    hung,               \* getEmptyCell is looping with no empty cell to find
    now,                \* timestamp of the latest animation-frame callback
    lastUpdate,         \* locals of the latest updateGameState call
    lastStepAt          \* NULL or the timestamp of the callback that made that call

vars == <<virtualField, snakeCells, snakeDirection, globalTimestamp,
          animationFrameId, btnDisabled, gameStatus, cellClass,
          keyboardActive, hung, now, lastUpdate, lastStepAt>>

-----------------------------------------------------------------------------
\* Values

Rows == 0 .. (FIELD_SIZE - 1)

Cells == Rows \X Rows

KeyCodes == {"ArrowUp", "ArrowRight", "ArrowDown", "ArrowLeft", "Space"}

TextInProgress == <<"In progress...">>

TextWon == <<"Congratulations!">>

TextLost == <<"Game over! Try again.">>

TextApples(k) == <<"Apples: ", k, " of ", WIN_CONDITION>>

NoUpdate ==
    [called |-> FALSE, isSnakeTouchedWall |-> FALSE, isSnakeTouchedSnake |-> FALSE,
     hasAllApplesEaten |-> FALSE, appleEaten |-> FALSE]

-----------------------------------------------------------------------------
\* Helpers

At(vf, r, c) == vf[r + 1][c + 1]

SetCell(vf, r, c, v) == [vf EXCEPT ![r + 1][c + 1] = v]

Reverse(s) == [i \in 1 .. Len(s) |-> s[Len(s) + 1 - i]]

Front(s) == SubSeq(s, 1, Len(s) - 1)

\* initNewField: the divs it creates, each of class 'cell'.
InitNewCells == [r \in 1 .. FIELD_SIZE |-> [c \in 1 .. FIELD_SIZE |-> {"cell"}]]

\* initNewField: FIELD_SIZE rows of FIELD_SIZE 'empty' cells.
InitNewField == [r \in 1 .. FIELD_SIZE |-> [c \in 1 .. FIELD_SIZE |-> "empty"]]

\* Mutant: the first cell drawn is returned, whatever it holds.
GetAnyCell(vf) == Cells

\* Mutant: the loop tests for a cell that is not 'snake'.
GetNonSnakeCell(vf) == {cell \in Cells : At(vf, cell[1], cell[2]) # "snake"}

\* getEmptyCell: the cells the rejection sampling can return. The loop ends
\* only on a cell that is 'empty'; with none it never ends.
GetEmptyCell(vf) == {cell \in Cells : At(vf, cell[1], cell[2]) = "empty"}

-----------------------------------------------------------------------------
\* handleKeyboard

\* Mutant: the request for the opposite direction leaves the list as it is.
HandleKeyboardCellsNoReverse(code, cells, dir) == cells

\* main.js:141-169: the list is reversed when the key asks for the opposite of
\* the committed direction.
HandleKeyboardCells(code, cells, dir) ==
    CASE code = "ArrowUp"    -> IF dir[1] = 1  THEN Reverse(cells) ELSE cells
      [] code = "ArrowRight" -> IF dir[2] = -1 THEN Reverse(cells) ELSE cells
      [] code = "ArrowDown"  -> IF dir[1] = -1 THEN Reverse(cells) ELSE cells
      [] code = "ArrowLeft"  -> IF dir[2] = 1  THEN Reverse(cells) ELSE cells
      [] OTHER               -> cells

HandleKeyboardDirection(code, dir) ==
    CASE code = "ArrowUp"    -> <<-1, 0>>
      [] code = "ArrowRight" -> <<0, 1>>
      [] code = "ArrowDown"  -> <<1, 0>>
      [] code = "ArrowLeft"  -> <<0, -1>>
      [] OTHER               -> dir

HandleKeyboard(code) ==
    /\ keyboardActive
    /\ ~hung
    /\ snakeCells' = HandleKeyboardCells(code, snakeCells, snakeDirection)
    /\ snakeDirection' = HandleKeyboardDirection(code, snakeDirection)
    /\ UNCHANGED <<virtualField, globalTimestamp, animationFrameId, btnDisabled,
                   gameStatus, cellClass, keyboardActive, hung, now, lastUpdate,
                   lastStepAt>>

-----------------------------------------------------------------------------
\* updateGameState

StepR(cells, dir) == cells[1][1] + dir[1]

StepC(cells, dir) == cells[1][2] + dir[2]

\* Mutant: the left edge is not tested.
IsSnakeTouchedWallNoLeft(cells, dir) ==
    \/ StepR(cells, dir) = FIELD_SIZE
    \/ StepR(cells, dir) < 0
    \/ StepC(cells, dir) = FIELD_SIZE

\* main.js:190-192
IsSnakeTouchedWall(cells, dir) ==
    \/ StepR(cells, dir) = FIELD_SIZE
    \/ StepR(cells, dir) < 0
    \/ StepC(cells, dir) = FIELD_SIZE
    \/ StepC(cells, dir) < 0

\* Mutant: no cell of the snake ends the game.
IsSnakeTouchedSnakeNever(vf, cells, dir) == FALSE

\* Mutant: the tail's cell, vacated on the same tick, does not count.
IsSnakeTouchedBody(vf, cells, dir) ==
    /\ ~IsSnakeTouchedWall(cells, dir)
    /\ At(vf, StepR(cells, dir), StepC(cells, dir)) = "snake"
    /\ <<StepR(cells, dir), StepC(cells, dir)>> # cells[Len(cells)]

IsSnakeTouchedSnake(vf, cells, dir) ==
    /\ ~IsSnakeTouchedWall(cells, dir)
    /\ At(vf, StepR(cells, dir), StepC(cells, dir)) = "snake"

\* Mutant: the game is won one apple late.
HasAllApplesEatenLate(cells) == Len(cells) - 2 = WIN_CONDITION

\* Mutant: the snake's length is compared, not the apples eaten.
HasAllApplesEatenByLength(cells) == Len(cells) = WIN_CONDITION

HasAllApplesEaten(cells) == Len(cells) - 1 = WIN_CONDITION

IsGameOver(vf, cells, dir) ==
    \/ IsSnakeTouchedWall(cells, dir)
    \/ IsSnakeTouchedSnake(vf, cells, dir)
    \/ HasAllApplesEaten(cells)

\* Mutant: every end of the game reads as a loss.
GameOverTextLost(cells) == TextLost

GameOverText(cells) == IF HasAllApplesEaten(cells) THEN TextWon ELSE TextLost

\* The snake with the step cell prepended (main.js:202-205).
PushHead(cells, dir) == <<<<StepR(cells, dir), StepC(cells, dir)>>>> \o cells

\* Mutant: the step cell is not marked 'snake' after the apple is eaten.
EatenFieldHeadNotMarked(vf, cells, dir, food) == SetCell(vf, food[1], food[2], "apple")

\* main.js:210-211 and 218: the new apple goes on an empty cell, then the
\* step cell becomes 'snake'.
EatenField(vf, cells, dir, food) ==
    SetCell(SetCell(vf, food[1], food[2], "apple"),
            StepR(cells, dir), StepC(cells, dir), "snake")

\* Mutant: shift for pop, the new head is removed and the tail kept.
MovedCellsShift(cells, dir) == Tail(PushHead(cells, dir))

\* Mutant: the last segment is not popped.
MovedCellsNoPop(cells, dir) == PushHead(cells, dir)

\* main.js:215: the grown snake without its last segment.
MovedCells(cells, dir) == Front(PushHead(cells, dir))

\* Mutant: the popped segment's cell is not cleared.
MovedFieldKeepsTail(vf, cells, dir) ==
    SetCell(vf, StepR(cells, dir), StepC(cells, dir), "snake")

\* main.js:215-218: the popped segment's cell becomes 'empty', then the step
\* cell becomes 'snake'.
MovedField(vf, cells, dir) ==
    LET grown == PushHead(cells, dir)
        last  == grown[Len(grown)]
    IN  SetCell(SetCell(vf, last[1], last[2], "empty"),
                StepR(cells, dir), StepC(cells, dir), "snake")

\* The locals of the call, kept for inspection.
UpdateLocals(vf, cells, dir, apple) ==
    [called |-> TRUE,
     isSnakeTouchedWall |-> IsSnakeTouchedWall(cells, dir),
     isSnakeTouchedSnake |-> IsSnakeTouchedSnake(vf, cells, dir),
     hasAllApplesEaten |-> HasAllApplesEaten(cells),
     appleEaten |-> apple]

\* The whole call, with isGameOn its return value. The caller's updateField
\* follows it in tick.
UpdateGameState(isGameOn) ==
    IF IsGameOver(virtualField, snakeCells, snakeDirection)
    THEN /\ isGameOn = FALSE
         /\ gameStatus' = GameOverText(snakeCells)
         /\ lastUpdate' = UpdateLocals(virtualField, snakeCells, snakeDirection, FALSE)
         /\ UNCHANGED <<virtualField, snakeCells, hung>>
    ELSE IF At(virtualField, StepR(snakeCells, snakeDirection),
               StepC(snakeCells, snakeDirection)) = "apple"
         THEN /\ lastUpdate' = UpdateLocals(virtualField, snakeCells, snakeDirection, TRUE)
              /\ snakeCells' = PushHead(snakeCells, snakeDirection)
              /\ isGameOn = TRUE
              /\ IF GetEmptyCell(virtualField) = {}
                 THEN /\ hung' = TRUE
                      /\ UNCHANGED <<virtualField, gameStatus>>
                 ELSE /\ \E food \in GetEmptyCell(virtualField) :
                            virtualField' =
                                EatenField(virtualField, snakeCells, snakeDirection, food)
                      /\ gameStatus' = TextApples(Len(snakeCells') - 1)
                      /\ UNCHANGED hung
         ELSE /\ lastUpdate' = UpdateLocals(virtualField, snakeCells, snakeDirection, FALSE)
              /\ snakeCells' = MovedCells(snakeCells, snakeDirection)
              /\ virtualField' = MovedField(virtualField, snakeCells, snakeDirection)
              /\ isGameOn = TRUE
              /\ UNCHANGED <<gameStatus, hung>>

-----------------------------------------------------------------------------
\* tick

\* !globalTimestamp
Falsy(ts) == ts = NULL \/ ts = 0

\* globalTimestamp after main.js:229-231.
TickStart(timestamp) == IF Falsy(globalTimestamp) THEN timestamp ELSE globalTimestamp

\* Mutant: the timestamp itself is compared, not the time since the reference.
StepDueSinceLoad(timestamp) == timestamp > TICK_IN_MS

\* Mutant: the step is due as soon as the interval has elapsed.
StepDueAtInterval(timestamp) == timestamp - TickStart(timestamp) >= TICK_IN_MS

\* main.js:236
StepDue(timestamp) == timestamp - TickStart(timestamp) > TICK_IN_MS

\* updateField: the classes of each cell's div after the switch on its
\* virtualField cell.
UpdateField(vf, classes) ==
    [r \in 1 .. FIELD_SIZE |-> [c \in 1 .. FIELD_SIZE |->
        CASE vf[r][c] = "apple" -> (classes[r][c] \ {"snake"}) \cup {"apple"}
          [] vf[r][c] = "snake" -> (classes[r][c] \ {"apple"}) \cup {"snake"}
          [] vf[r][c] = "empty" -> classes[r][c] \ {"snake", "apple"}
          [] OTHER              -> classes[r][c]]]

\* Mutant: the next callback is requested whatever the step returned.
RequestNextAlways(isGameOn) == "pending"

\* main.js:243-248: the next callback is requested only while the game is on.
RequestNext(isGameOn) == IF isGameOn THEN "pending" ELSE "cancelled"

Tick(timestamp) ==
    /\ animationFrameId = "pending"
    /\ ~hung
    /\ timestamp > now
    /\ timestamp <= MaxTime
    /\ now' = timestamp
    /\ IF StepDue(timestamp)
       THEN /\ globalTimestamp' = NULL
            /\ lastStepAt' = timestamp
            /\ \E isGameOn \in BOOLEAN :
                  /\ UpdateGameState(isGameOn)
                  /\ IF hung'
                     THEN UNCHANGED <<cellClass, animationFrameId, btnDisabled>>
                     ELSE /\ cellClass' = UpdateField(virtualField', cellClass)
                          /\ animationFrameId' = RequestNext(isGameOn)
                          /\ btnDisabled' = (btnDisabled /\ isGameOn)
            /\ UNCHANGED <<snakeDirection, keyboardActive>>
       ELSE /\ globalTimestamp' = TickStart(timestamp)
            /\ animationFrameId' = "pending"
            /\ UNCHANGED <<virtualField, snakeCells, snakeDirection, btnDisabled,
                           gameStatus, cellClass, keyboardActive, hung, lastUpdate,
                           lastStepAt>>

-----------------------------------------------------------------------------
\* gameBtn.onclick

\* initNewField, putApple on the fresh field, putSnake, activateKeyboard and
\* the first requestAnimationFrame. The button takes a click only while it is
\* enabled.
Start ==
    /\ ~btnDisabled
    /\ ~hung
    /\ btnDisabled' = TRUE
    /\ gameStatus' = TextInProgress
    /\ globalTimestamp' = NULL
    /\ cellClass' = InitNewCells
    /\ \E apple \in GetEmptyCell(InitNewField) :
          LET withApple == SetCell(InitNewField, apple[1], apple[2], "apple")
          IN  IF GetEmptyCell(withApple) = {}
              THEN /\ hung' = TRUE
                   /\ virtualField' = withApple
                   /\ UNCHANGED <<snakeCells, keyboardActive, animationFrameId>>
              ELSE \E snake \in GetEmptyCell(withApple) :
                      /\ virtualField' = SetCell(withApple, snake[1], snake[2], "snake")
                      /\ snakeCells' = <<snake>>
                      /\ keyboardActive' = TRUE
                      /\ animationFrameId' = "pending"
                      /\ UNCHANGED hung
    /\ lastUpdate' = NoUpdate
    /\ UNCHANGED <<snakeDirection, now, lastStepAt>>

\* A start is followed only while the clock still has the two callbacks that
\* bring a game to its first step.
Click == now + 2 * FrameDelay <= MaxTime /\ Start

-----------------------------------------------------------------------------
\* The page

Init ==
    /\ virtualField = << >>
    /\ snakeCells = << >>
    /\ snakeDirection = <<1, 0>>
    /\ globalTimestamp = NULL
    /\ animationFrameId = "null"
    /\ btnDisabled = FALSE
    /\ gameStatus = << >>
    /\ cellClass = << >>
    /\ keyboardActive = FALSE
    /\ hung = FALSE
    /\ now = 0
    /\ lastUpdate = NoUpdate
    /\ lastStepAt = NULL

KeyDown == \E code \in KeyCodes : HandleKeyboard(code)

Frame == Tick(now + FrameDelay)

Next == Click \/ KeyDown \/ Frame

Spec == Init /\ [][Next]_vars

\* The clock seen closely: callbacks that come sooner than, exactly at and
\* later than the tick interval, every key between them, and the starts that
\* leave a game the time to reach its first step before the horizon.
ClockDelays == {100, 200, 300, 400}

ClockHorizon == MaxTime \div 2

FrameAny ==
    \E delay \in ClockDelays :
        /\ now + delay <= ClockHorizon
        /\ Tick(now + delay)

ClickInTime == now + 2 * FrameDelay <= ClockHorizon /\ Click

NextClock == ClickInTime \/ KeyDown \/ FrameAny

SpecClock == Init /\ [][NextClock]_vars

\* The starts of Spec, and the start that follows a won game whenever the
\* win comes, the last callback of the horizon included.
StartAfterWin == gameStatus = TextWon /\ Start

NextRestart == Click \/ StartAfterWin \/ KeyDown \/ Frame

SpecRestart == Init /\ [][NextRestart]_vars

-----------------------------------------------------------------------------
\* Vocabulary of the properties, stated on the state alone

Opposite(dir) == <<0 - dir[1], 0 - dir[2]>>

ArrowCodes == {"ArrowUp", "ArrowRight", "ArrowDown", "ArrowLeft"}

SnakeSet == {snakeCells[i] : i \in 1 .. Len(snakeCells)}

CellsOf(vf, v) == {cell \in Cells : vf[cell[1] + 1][cell[2] + 1] = v}

\* next = head + heading
NextCell == <<snakeCells[1][1] + snakeDirection[1], snakeCells[1][2] + snakeDirection[2]>>

NextOutside == NextCell[1] \notin Rows \/ NextCell[2] \notin Rows

NextIs(v) == ~NextOutside /\ virtualField[NextCell[1] + 1][NextCell[2] + 1] = v

ApplesEaten == Len(snakeCells) - 1

TailCell == snakeCells[Len(snakeCells)]

\* A game is on: from the click on the start button to the step that ends it.
InProgress == btnDisabled /\ ~hung

\* The latest step ended the game.
Terminal == gameStatus = TextWon \/ gameStatus = TextLost

\* This transition is a callback that invoked a step: only tick moves the
\* clock, and only a tick that calls updateGameState clears globalTimestamp.
StepInvoked == now' # now /\ globalTimestamp' = NULL

\* This transition is a step that returned true / false.
StepReturnedTrue == StepInvoked /\ btnDisabled' /\ animationFrameId' = "pending"

StepReturnedFalse == StepInvoked /\ ~btnDisabled' /\ animationFrameId' # "pending"

\* This transition is a click on the start button.
Restarted == ~btnDisabled /\ btnDisabled'

\* This transition is a key that changed something: tick moves the clock and
\* the click disables the button, the keyboard handler does neither.
KeyHandled == now' = now /\ btnDisabled' = btnDisabled

\* s is t read from its last element to its first.
IsReversalOf(s, t) ==
    /\ Len(s) = Len(t)
    /\ \A i \in 1 .. Len(t) : s[i] = t[Len(t) + 1 - i]

-----------------------------------------------------------------------------
\* C1: between handlers, in every state from the first game start on, the
\* cells marked 'snake' are exactly the coordinates of the snake's segments,
\* and there are as many of them as the snake has segments.
C1_SnakeCellsAreSegments ==
    keyboardActive =>
        /\ CellsOf(virtualField, "snake") = SnakeSet
        /\ Cardinality(CellsOf(virtualField, "snake")) = Len(snakeCells)

\* A snake of three segments or more that has just crawled one cell, then
\* been turned or reversed by the keyboard.
C1_Witness ==
    /\ InProgress
    /\ Len(snakeCells) >= 3
    /\ lastUpdate.called /\ ~lastUpdate.appleEaten
    /\ snakeCells[1] # <<snakeCells[2][1] + snakeDirection[1],
                         snakeCells[2][2] + snakeDirection[2]>>

\* C2: while the game is in progress the grid holds exactly one 'apple' cell
\* and that cell is no segment of the snake.
C2_OneAppleOffSnake ==
    InProgress =>
        /\ Cardinality(CellsOf(virtualField, "apple")) = 1
        /\ CellsOf(virtualField, "apple") \cap SnakeSet = {}

\* In progress right after a step that ate an apple, the snake three long.
C2_Witness ==
    /\ InProgress
    /\ lastUpdate.called /\ lastUpdate.appleEaten
    /\ Len(snakeCells) >= 3

\* C3 as claimed: a step whose next cell is outside the grid ends Lost and
\* leaves grid and snake as they were, whatever the snake's length.
C3_WallIsAlwaysLost ==
    [][(StepInvoked /\ NextOutside) =>
          /\ gameStatus' = TextLost
          /\ StepReturnedFalse
          /\ UNCHANGED <<virtualField, snakeCells>>]_vars

\* C3 as amended: a step whose next cell is outside the grid ends the game
\* and leaves grid and snake as they were; the outcome is Lost when fewer
\* than WIN_CONDITION apples were eaten and Won when WIN_CONDITION were.
C3_WallEndsGame ==
    [][(StepInvoked /\ NextOutside) =>
          /\ gameStatus' = (IF ApplesEaten = WIN_CONDITION THEN TextWon ELSE TextLost)
          /\ ApplesEaten <= WIN_CONDITION
          /\ StepReturnedFalse
          /\ UNCHANGED <<virtualField, snakeCells>>]_vars

\* A step has just run into the wall with WIN_CONDITION apples eaten.
C3_Witness ==
    /\ lastUpdate.called /\ lastUpdate.isSnakeTouchedWall
    /\ NextOutside
    /\ ApplesEaten = WIN_CONDITION
    /\ Terminal

\* C4: a step reports Won exactly when the snake has eaten WIN_CONDITION
\* apples before it moves, which is on the first step after the one that ate
\* the WIN_CONDITION-th apple; that step moves nothing; the step that eats
\* the WIN_CONDITION-th apple returns true; nothing but a step reports Won.
C4_WonOneStepAfterLastApple ==
    [][/\ StepInvoked =>
            /\ (gameStatus' = TextWon) <=> (ApplesEaten = WIN_CONDITION)
            /\ ApplesEaten = WIN_CONDITION =>
                  /\ lastUpdate.called /\ lastUpdate.appleEaten
                  /\ StepReturnedFalse
                  /\ UNCHANGED <<virtualField, snakeCells>>
            /\ (ApplesEaten < WIN_CONDITION /\ Len(snakeCells') - 1 = WIN_CONDITION) =>
                  /\ StepReturnedTrue
                  /\ gameStatus' = TextApples(WIN_CONDITION)
       /\ (gameStatus' = TextWon /\ gameStatus # TextWon) => StepInvoked]_vars

\* Won has just been reported, with neither wall nor snake ahead.
C4_Witness ==
    /\ gameStatus = TextWon
    /\ lastUpdate.called /\ lastUpdate.hasAllApplesEaten
    /\ ~lastUpdate.isSnakeTouchedWall /\ ~lastUpdate.isSnakeTouchedSnake
    /\ ApplesEaten = WIN_CONDITION

\* C5 as claimed: in a game in progress, a key that requests the opposite of
\* the committed heading reverses the segments, so that the previous tail is
\* the head, and the step that follows finds no snake on its next cell,
\* whatever the snake's shape.
C5_ReversalNeverSelfCollides ==
    [][(InProgress /\ snakeDirection' = Opposite(snakeDirection)) =>
          /\ snakeCells' = Reverse(snakeCells)
          /\ snakeCells'[1] = TailCell
          /\ LET next == <<snakeCells'[1][1] + snakeDirection'[1],
                           snakeCells'[1][2] + snakeDirection'[2]>>
             IN  next \in Cells => virtualField'[next[1] + 1][next[2] + 1] # "snake"]_vars

\* C5 as claimed, for the reversals requested while the heading is still the
\* direction of the latest move (no other key since the step) and the game is
\* not yet won: violated too, by a snake bent into a U.
C5_ReversalAfterStep ==
    [][(/\ InProgress
        /\ snakeDirection' = Opposite(snakeDirection)
        /\ Len(snakeCells) >= 2
        /\ snakeCells[1] = <<snakeCells[2][1] + snakeDirection[1],
                             snakeCells[2][2] + snakeDirection[2]>>
        /\ ApplesEaten < WIN_CONDITION) =>
          LET next == <<snakeCells'[1][1] + snakeDirection'[1],
                        snakeCells'[1][2] + snakeDirection'[2]>>
          IN  next \in Cells => virtualField'[next[1] + 1][next[2] + 1] # "snake"]_vars

\* C6 as claimed: of two direction inputs between two steps only the second
\* takes effect: heading and segment order are those the second alone gives.
C6_LastInputWins ==
    InProgress =>
        \A first, second \in ArrowCodes :
            LET cells1 == HandleKeyboardCells(first, snakeCells, snakeDirection)
                dir1   == HandleKeyboardDirection(first, snakeDirection)
            IN  /\ HandleKeyboardDirection(second, dir1)
                     = HandleKeyboardDirection(second, snakeDirection)
                /\ HandleKeyboardCells(second, cells1, dir1)
                     = HandleKeyboardCells(second, snakeCells, snakeDirection)

\* C7: a step onto the apple that does not end the game grows the snake by
\* the step cell alone and puts the one new apple on a cell that was 'empty'
\* when the step began: not on the snake, not on the new head, not on the
\* cell of the apple just eaten.
C7_EatGrowsAndMovesApple ==
    [][(StepInvoked /\ NextIs("apple") /\ ApplesEaten # WIN_CONDITION) =>
          /\ StepReturnedTrue
          /\ Len(snakeCells') = Len(snakeCells) + 1
          /\ snakeCells' = <<NextCell>> \o snakeCells
          /\ \E food \in CellsOf(virtualField, "empty") :
                /\ CellsOf(virtualField', "apple") = {food}
                /\ food # NextCell
                /\ food \notin SnakeSet
                /\ food \notin CellsOf(virtualField, "apple")
          /\ CellsOf(virtualField', "snake") = CellsOf(virtualField, "snake") \cup {NextCell}]_vars

\* A step has just eaten an apple and the game goes on, the snake three long.
C7_Witness ==
    /\ InProgress
    /\ lastUpdate.called /\ lastUpdate.appleEaten
    /\ Len(snakeCells) >= 3
    /\ gameStatus = TextApples(Len(snakeCells) - 1)

\* C8: a step onto an 'empty' cell that does not end the game keeps the
\* snake's length and the number of cells that are not 'empty': the snake
\* becomes the next cell followed by its segments without the tail, and the
\* grid changes at the next cell ('snake') and at the old tail ('empty') only.
C8_MoveKeepsLengthAndCount ==
    [][(StepInvoked /\ NextIs("empty") /\ ApplesEaten # WIN_CONDITION) =>
          /\ StepReturnedTrue
          /\ snakeCells' = <<NextCell>> \o SubSeq(snakeCells, 1, Len(snakeCells) - 1)
          /\ Len(snakeCells') = Len(snakeCells)
          /\ \A cell \in Cells :
                virtualField'[cell[1] + 1][cell[2] + 1] =
                    IF cell = NextCell THEN "snake"
                    ELSE IF cell = TailCell THEN "empty"
                    ELSE virtualField[cell[1] + 1][cell[2] + 1]
          /\ Cardinality(Cells \ CellsOf(virtualField', "empty"))
               = Cardinality(Cells \ CellsOf(virtualField, "empty"))]_vars

\* A snake of two segments or more has just crawled one cell.
C8_Witness ==
    /\ InProgress
    /\ lastUpdate.called /\ ~lastUpdate.appleEaten
    /\ Len(snakeCells) >= 2
    /\ snakeCells[1] = <<snakeCells[2][1] + snakeDirection[1],
                         snakeCells[2][2] + snakeDirection[2]>>

\* C9: with fewer than WIN_CONDITION apples eaten, a step whose next cell is
\* inside the grid and marked 'snake' ends Lost and leaves grid and snake as
\* they were, also when the next cell is the tail's.
C9_SelfCollisionIsLost ==
    [][(StepInvoked /\ ApplesEaten < WIN_CONDITION /\ NextIs("snake")) =>
          /\ gameStatus' = TextLost
          /\ StepReturnedFalse
          /\ UNCHANGED <<virtualField, snakeCells>>]_vars

\* A snake of three segments or more has just lost by stepping onto its tail.
C9_Witness ==
    /\ gameStatus = TextLost
    /\ lastUpdate.called /\ lastUpdate.isSnakeTouchedSnake
    /\ Len(snakeCells) >= 3
    /\ ~NextOutside /\ NextCell = TailCell

\* C10: once a step has ended the game, no callback runs and nothing changes
\* the grid or the snake's length until the start button restarts the game.
C10_NoStepAfterTerminal ==
    [][Terminal =>
          \/ Restarted /\ gameStatus' = TextInProgress
          \/ /\ UNCHANGED <<virtualField, now, globalTimestamp, lastUpdate,
                            gameStatus, animationFrameId, btnDisabled>>
             /\ animationFrameId # "pending"
             /\ Len(snakeCells') = Len(snakeCells)]_vars

\* A game that ended at the wall while the clock still has callbacks to give
\* and the start button can be clicked, and whose snake the keyboard has
\* turned since.
C10_Witness ==
    /\ Terminal
    /\ ~btnDisabled
    /\ now + 2 * FrameDelay <= MaxTime
    /\ Len(snakeCells) >= 2
    /\ snakeCells[1] # <<snakeCells[2][1] + snakeDirection[1],
                         snakeCells[2][2] + snakeDirection[2]>>
    /\ lastUpdate.isSnakeTouchedWall

\* C11 as stated: handling a key changes only the heading; the grid and the
\* sequence of the snake's segments are what they were.
C11_InputChangesOnlyHeading ==
    [][KeyHandled => UNCHANGED <<virtualField, snakeCells>>]_vars

\* C11, amended: handling a key never changes the grid nor anything but the
\* heading and the order of the segments; the segments are read in reverse
\* exactly when the key asks for the opposite of the heading, and are the same
\* sequence after any other key.
C11_InputKeepsGridAndSegments ==
    [][KeyHandled =>
          /\ UNCHANGED <<virtualField, globalTimestamp, animationFrameId,
                         gameStatus, cellClass, keyboardActive, hung, lastUpdate>>
          /\ IF snakeDirection' = Opposite(snakeDirection)
             THEN IsReversalOf(snakeCells', snakeCells)
             ELSE snakeCells' = snakeCells]_vars

\* A bent snake of three segments or more as a reversal leaves it: the tail
\* end lies along the heading behind its neighbour, the head does not continue
\* from its neck.
C11_Witness ==
    /\ InProgress
    /\ Len(snakeCells) >= 3
    /\ snakeCells[1] # <<snakeCells[2][1] + snakeDirection[1],
                         snakeCells[2][2] + snakeDirection[2]>>
    /\ snakeCells[Len(snakeCells) - 1] =
           <<TailCell[1] + snakeDirection[1], TailCell[2] + snakeDirection[2]>>
    /\ snakeCells[1][1] # TailCell[1] /\ snakeCells[1][2] # TailCell[2]

\* This transition is an animation-frame callback.
Callback == now' # now

\* This transition left the game as it was: no step was applied.
NoStep == UNCHANGED <<virtualField, snakeCells, gameStatus, lastUpdate, lastStepAt>>

\* C12 as stated: after a step of this game applied at timestamp t0, a later
\* callback with timestamp t applies the next step exactly when
\* t - t0 >= TICK_IN_MS, so the step comes at the first such callback however
\* many callbacks came before it.
C12_NextStepAfterInterval ==
    [][(Callback /\ InProgress /\ lastUpdate.called) =>
          (StepInvoked <=> now' - lastStepAt >= TICK_IN_MS)]_vars

\* C12, amended: a step clears the clock reference; the first callback after
\* it applies no step and its timestamp t1 becomes the reference; every later
\* callback keeps that reference and applies no step until the first one whose
\* timestamp t has t - t1 > TICK_IN_MS, which applies the next step, however
\* many callbacks came in between.
C12_NextStepAfterFirstCallback ==
    [][(Callback /\ InProgress /\ lastUpdate.called) =>
          /\ globalTimestamp = NULL <=> now = lastStepAt
          /\ globalTimestamp # NULL => globalTimestamp > lastStepAt
          /\ IF globalTimestamp = NULL
             THEN NoStep /\ globalTimestamp' = now'
             ELSE IF now' - globalTimestamp > TICK_IN_MS
                  THEN StepInvoked /\ lastStepAt' = now'
                  ELSE NoStep /\ globalTimestamp' = globalTimestamp]_vars

\* A callback has come exactly TICK_IN_MS after the reference, and no less
\* after the latest step of the game, and has applied no step.
C12_Witness ==
    /\ InProgress /\ lastUpdate.called
    /\ globalTimestamp # NULL
    /\ now - globalTimestamp = TICK_IN_MS
    /\ now - lastStepAt >= TICK_IN_MS

\* C13: no step is invoked on a snake of two segments or more whose
\* head + heading is its second segment: the keys handled between two steps
\* never leave the snake heading into its own neck.
C13_NoNeckCollision ==
    [][(StepInvoked /\ Len(snakeCells) >= 2) => NextCell # snakeCells[2]]_vars

\* Steps along rows and columns from cell a to cell b.
Distance(a, b) ==
    (IF a[1] >= b[1] THEN a[1] - b[1] ELSE b[1] - a[1])
    + (IF a[2] >= b[2] THEN a[2] - b[2] ELSE b[2] - a[2])

\* C14: in every state from the first game start on, the snake's segment list
\* is well formed: it has at least one segment, no coordinate twice, every
\* segment inside the grid, and consecutive segments are orthogonal neighbours.
C14_SnakeWellFormed ==
    keyboardActive =>
        /\ Len(snakeCells) >= 1
        /\ \A i, j \in 1 .. Len(snakeCells) : i # j => snakeCells[i] # snakeCells[j]
        /\ \A i \in 1 .. Len(snakeCells) : snakeCells[i] \in Cells
        /\ \A i \in 1 .. Len(snakeCells) - 1 :
              Distance(snakeCells[i], snakeCells[i + 1]) = 1

\* A snake of four segments or more that has just eaten and is curled up: its
\* head lies next to its tail.
C14_Witness ==
    /\ InProgress
    /\ Len(snakeCells) >= 4
    /\ lastUpdate.called /\ lastUpdate.appleEaten
    /\ Distance(snakeCells[1], TailCell) = 1

\* C15: getEmptyCell always finds an empty cell. No call of it has been left
\* searching; the snake is never longer than WIN_CONDITION + 1; and in every
\* state whose next step may eat, the grid has an empty cell for the new apple.
C15_EmptyCellForEveryPlacement ==
    /\ ~hung
    /\ Len(snakeCells) <= WIN_CONDITION + 1
    /\ (keyboardActive /\ ApplesEaten < WIN_CONDITION) =>
           CellsOf(virtualField, "empty") # {}

\* The last apple of a game has just been eaten: the snake has its greatest
\* length and getEmptyCell has placed an apple on the fullest grid.
C15_Witness ==
    /\ InProgress
    /\ lastUpdate.called /\ lastUpdate.appleEaten
    /\ Len(snakeCells) = WIN_CONDITION + 1
    /\ Cardinality(CellsOf(virtualField, "empty")) = FIELD_SIZE * FIELD_SIZE - WIN_CONDITION - 2

\* The four headings the keyboard can set.
Headings == {<<-1, 0>>, <<0, 1>>, <<1, 0>>, <<0, -1>>}

\* C16: no step indexes the grid outside 0 .. FIELD_SIZE - 1. In every state
\* a step can be invoked in, the grid is FIELD_SIZE by FIELD_SIZE, every
\* segment (the tail a crawl clears among them) lies inside it, the heading
\* is one cell long, and the wall test of the step is true exactly when
\* next = head + heading lies outside, so the cell the step goes on to read
\* and write is inside.
C16_StepStaysInsideGrid ==
    keyboardActive =>
        /\ DOMAIN virtualField = 1 .. FIELD_SIZE
        /\ \A r \in 1 .. FIELD_SIZE : DOMAIN virtualField[r] = 1 .. FIELD_SIZE
        /\ SnakeSet \subseteq Cells
        /\ snakeDirection \in Headings
        /\ IsSnakeTouchedWall(snakeCells, snakeDirection) <=> NextOutside

\* A snake of two segments or more has just been stopped at the left edge:
\* the wall test kept the step from reading column -1.
C16_Witness ==
    /\ gameStatus = TextLost
    /\ lastUpdate.called /\ lastUpdate.isSnakeTouchedWall
    /\ Len(snakeCells) >= 2
    /\ NextCell[2] = -1

\* No callback has run since the start button was clicked: the game has made
\* no step and the clock is where the step that ended the game before it, or
\* the loading of the page, left it.
JustStarted ==
    /\ btnDisabled
    /\ ~lastUpdate.called
    /\ now = (IF lastStepAt = NULL THEN 0 ELSE lastStepAt)

\* C17: every start of a game, the first one and every restart after a lost
\* or a won game, leaves a grid whose cells are all 'empty' except exactly one
\* 'apple' and exactly one 'snake' cell at different coordinates, a snake list
\* that is that single coordinate, and a cleared clock reference.
C17_StartYieldsFreshBoard ==
    JustStarted =>
        /\ Cardinality(CellsOf(virtualField, "apple")) = 1
        /\ Cardinality(CellsOf(virtualField, "snake")) = 1
        /\ Cardinality(CellsOf(virtualField, "empty")) = FIELD_SIZE * FIELD_SIZE - 2
        /\ Len(snakeCells) = 1
        /\ CellsOf(virtualField, "snake") = {snakeCells[1]}
        /\ globalTimestamp = NULL
        /\ ~hung

\* A game has just been started from a final state, later than any start
\* that follows a lost game is taken: it follows a won game.
C17_Witness ==
    /\ JustStarted
    /\ lastStepAt = now
    /\ now + 2 * FrameDelay > MaxTime
    /\ Len(snakeCells) = 1

\* In-grid cells in front of the head along the heading.
Ahead ==
    CASE snakeDirection = <<1, 0>>  -> FIELD_SIZE - 1 - snakeCells[1][1]
      [] snakeDirection = <<-1, 0>> -> snakeCells[1][1]
      [] snakeDirection = <<0, 1>>  -> FIELD_SIZE - 1 - snakeCells[1][2]
      [] snakeDirection = <<0, -1>> -> snakeCells[1][2]

\* C18: with no further key, a game in progress ends within FIELD_SIZE steps.
\* While the game is in progress a callback is pending and at most
\* FIELD_SIZE - 1 cells lie in front of the head; a step with no cell in
\* front ends the game; and every step that does not end it keeps the heading
\* and leaves one cell less in front. So a run of steps without keys has at
\* most Ahead steps that go on, and the one after them is final.
C18_EndsWithinFieldSizeSteps ==
    [][InProgress =>
          /\ animationFrameId = "pending"
          /\ Ahead \in 0 .. FIELD_SIZE - 1
          /\ StepInvoked =>
                /\ Ahead = 0 => StepReturnedFalse
                /\ StepReturnedTrue =>
                      /\ snakeDirection' = snakeDirection
                      /\ Ahead' = Ahead - 1]_vars

\* The longest run: the first game, never restarted, has made FIELD_SIZE
\* steps; the snake fills a column from the top row to the bottom row,
\* heads down, and the last step ended the game at the wall.
C18_Witness ==
    /\ Terminal
    /\ lastUpdate.called /\ lastUpdate.isSnakeTouchedWall
    /\ now = 2 * FIELD_SIZE * FrameDelay
    /\ snakeDirection = <<1, 0>>
    /\ Len(snakeCells) = FIELD_SIZE
    /\ \A i \in 1 .. FIELD_SIZE :
          snakeCells[i] = <<FIELD_SIZE - i, snakeCells[1][2]>>

\* C19: with the strictly increasing positive timestamps that Tick takes,
\* each callback applies at most one step (the snake is what it was, or has advanced by
\* the one cell next = head + heading, with or without its tail), and the
\* callback that applies a step comes more than TICK_IN_MS after the callback
\* that applied the step before it, in the same game or the one before.
C19_StepsMoreThanTickApart ==
    [][Callback =>
          /\ snakeCells' \in {snakeCells,
                               <<NextCell>> \o snakeCells,
                               <<NextCell>> \o SubSeq(snakeCells, 1, Len(snakeCells) - 1)}
          /\ lastStepAt' \in {lastStepAt, now'}
          /\ (StepInvoked /\ lastStepAt # NULL) =>
                now' - lastStepAt > TICK_IN_MS]_vars

\* Two steps as close as this clock lets them be: the first game has eaten
\* twice, on the first callback past the interval each time, and the second
\* step has just been applied.
C19_Witness ==
    /\ InProgress
    /\ lastUpdate.called /\ lastUpdate.appleEaten
    /\ lastStepAt = now
    /\ Len(snakeCells) = 3
    /\ now = 2 * (TICK_IN_MS + 200)

=============================================================================
